---------------------------- MODULE Spec2Model ----------------------------
(***************************************************************************)
(* Model of odoo_module_migrate/migration_scripts/migrate_140_150.py:       *)
(* the 14.0 -> 15.0 migration steps reformat_assets_definition and          *)
(* search_directories (reformat_email_template).                            *)
(*                                                                          *)
(* Text.  A text (manifest source, XML text for the template pass, a path)  *)
(* is a sequence of units.  A unit is one character ("{", ",", "'", " ",    *)
(* "\n", "/", ...) or a run of characters that no operation of the program  *)
(* ever splits or looks inside of ("data", "web.assets_backend", ".xml").   *)
(* The literal True is the two units "T","rue" because the program does     *)
(* compute offsets that fall right after the first character of a token.    *)
(* Offsets are 0-based as in Python: s[i] is At(s, i), s[:i] is Upto(s, i), *)
(* s[i:] is From(s, i).                                                     *)
(***************************************************************************)
EXTENDS Naturals, Sequences, FiniteSets, TLC

\* ------------------------------------------------------------------ text

At(s, i) == s[i + 1]

Upto(s, i) == SubSeq(s, 1, i)

From(s, i) == SubSeq(s, i + 1, Len(s))

Slice(s, i, j) == SubSeq(s, i + 1, j)

Range(s) == {s[i] : i \in DOMAIN s}

StartsWith(s, p) == Len(p) <= Len(s) /\ SubSeq(s, 1, Len(p)) = p

EndsWith(s, p) == Len(p) <= Len(s) /\ SubSeq(s, Len(s) - Len(p) + 1, Len(s)) = p

\* s.count(c) for a one-character c
Count(s, c) == Cardinality({i \in DOMAIN s : s[i] = c})

Min(S) == CHOOSE x \in S : \A y \in S : x <= y

RECURSIVE Concat(_)
Concat(ss) == IF ss = <<>> THEN <<>> ELSE Head(ss) \o Concat(Tail(ss))

Spaces(n) == [i \in 1..n |-> " "]

\* Does pattern p occur in s at 0-based offset i
MatchAt(s, p, i) == i + Len(p) <= Len(s) /\ Slice(s, i, i + Len(p)) = p

\* re.search(p, s) for a literal pattern p
Contains(s, p) == \E i \in 0..Len(s) : MatchAt(s, p, i)

\* the offset of the first occurrence of old in s[i:], len(s) + 1 when none
NextMatch(s, old, i) == Min({j \in i..(Len(s) + 1) : j = Len(s) + 1 \/ MatchAt(s, old, j)})

\* str.replace(old, new) and re.sub(old, new, s) for a literal pattern: the
\* non-overlapping occurrences, leftmost first, are replaced in one pass.
RECURSIVE ReplaceFrom(_, _, _, _), ReplaceStep(_, _, _, _, _)
ReplaceFrom(s, old, new, i) == ReplaceStep(s, old, new, i, NextMatch(s, old, i))

ReplaceStep(s, old, new, i, m) ==
    IF m > Len(s) THEN From(s, i)
    ELSE Slice(s, i, m) \o new \o ReplaceFrom(s, old, new, m + Len(old))

ReplaceAll(s, old, new) == ReplaceFrom(s, old, new, 0)

\* str.rstrip()
RECURSIVE RStrip(_)
RStrip(s) ==
    IF s # <<>> /\ s[Len(s)] \in {" ", "\n"} THEN RStrip(Upto(s, Len(s) - 1)) ELSE s

\* the end offset of the line that starts at offset lo: its "\n", or len(s)
LineEnd(s, lo) == Min({j \in lo..Len(s) : j = Len(s) \/ At(s, j) = "\n"})

\* str.splitlines() of s[lo:]: the lines without their line ends
RECURSIVE SplitLines(_, _), SplitLine(_, _, _)
SplitLines(s, lo) == IF lo >= Len(s) THEN <<>> ELSE SplitLine(s, lo, LineEnd(s, lo))

SplitLine(s, lo, hi) == <<Slice(s, lo, hi)>> \o SplitLines(s, hi + 1)

\* len(line) - len(line.lstrip(" "))
LeadingSpaces(line) ==
    Min({j \in 0..Len(line) : j = Len(line) \/ At(line, j) # " "})

\* -------------------------------------------------- tokens and syntax tree
\* asttokens.ASTTokens(manifest_source, parse=True): the token list with each
\* token's startpos/endpos, and the syntax tree whose nodes carry first_token
\* and last_token.  Only the grammar a manifest needs is covered: strings,
\* names, list displays and dict displays.

Blank == {" ", "\n"}

Punct == {"{", "}", "[", "]", ",", ":"}

Quotes == {"'", "\""}

\* end offset of the run of word units starting at i
WordEnd(s, i) ==
    Min({j \in i..Len(s) : j = Len(s) \/ At(s, j) \in (Blank \cup Punct \cup Quotes)})

\* offset of the first non-blank unit of s[i:hi], hi when there is none
SkipBlank(s, i, hi) == Min({j \in i..hi : j = hi \/ At(s, j) \notin Blank})

\* offset of the quote that closes the string opened at i, hi when the line
\* ends first
CloseQuote(s, i, hi) == Min({j \in (i + 1)..hi : j = hi \/ At(s, j) = At(s, i)})

Tok(type, startpos, endpos, body) ==
    [type |-> type, startpos |-> startpos, endpos |-> endpos, body |-> body]

\* The tokens of s[i:hi], hi the end of a line.  A quoted string ends at the
\* next occurrence of its quote character, which has to come before the end of
\* the line; no token spans two lines.
RECURSIVE LineTokens(_, _, _), StringToken(_, _, _, _), NameToken(_, _, _, _)
LineTokens(s, i, hi) ==
    IF i >= hi THEN <<>>
    ELSE IF At(s, i) \in Blank THEN LineTokens(s, SkipBlank(s, i, hi), hi)
    ELSE IF At(s, i) \in Punct
    THEN <<Tok("OP", i, i + 1, <<At(s, i)>>)>> \o LineTokens(s, i + 1, hi)
    ELSE IF At(s, i) \in Quotes THEN StringToken(s, i, hi, CloseQuote(s, i, hi))
    ELSE NameToken(s, i, hi, WordEnd(s, i))

StringToken(s, i, hi, close) ==
    IF close >= hi THEN <<Tok("ERR", i, hi, <<>>)>>
    ELSE <<Tok("STRING", i, close + 1, Slice(s, i + 1, close))>> \o LineTokens(s, close + 1, hi)

NameToken(s, i, hi, end) ==
    <<Tok("NAME", i, end, Slice(s, i, end))>> \o LineTokens(s, end, hi)

\* the tokens of s[lo:], line by line
RECURSIVE Tokens(_, _), TokensOfLine(_, _, _)
Tokens(s, lo) == IF lo >= Len(s) THEN <<>> ELSE TokensOfLine(s, lo, LineEnd(s, lo))

TokensOfLine(s, lo, hi) == LineTokens(s, lo, hi) \o Tokens(s, hi + 1)

IsOp(t, k, c) == k <= Len(t) /\ t[k].type = "OP" /\ t[k].body = <<c>>

NoParse == [ok |-> FALSE]

\* A syntax node: kind "str" | "name" | "list" | "dict"; body is the text of a
\* string or name; items are a list's elements or a dict's key/value pairs;
\* first and last index the node's first_token and last_token in the token list.
Node(kind, body, items, first, last) ==
    [ok |-> TRUE, kind |-> kind, body |-> body, items |-> items,
     first |-> first, last |-> last]

RECURSIVE ParseValue(_, _), ParseItems(_, _, _, _), ParsePairs(_, _, _, _),
          AfterItem(_, _, _, _), AfterKey(_, _, _, _), AfterPair(_, _, _, _, _)
ParseValue(t, k) ==
    IF k > Len(t) THEN NoParse
    ELSE IF t[k].type = "STRING" THEN Node("str", t[k].body, <<>>, k, k)
    ELSE IF t[k].type = "NAME" THEN Node("name", t[k].body, <<>>, k, k)
    ELSE IF IsOp(t, k, "[") THEN ParseItems(t, k, k + 1, <<>>)
    ELSE IF IsOp(t, k, "{") THEN ParsePairs(t, k, k + 1, <<>>)
    ELSE NoParse

ParseItems(t, open, k, acc) ==
    IF IsOp(t, k, "]") THEN Node("list", <<>>, acc, open, k)
    ELSE AfterItem(t, open, acc, ParseValue(t, k))

AfterItem(t, open, acc, v) ==
    IF ~v.ok THEN NoParse
    ELSE IF IsOp(t, v.last + 1, ",") THEN ParseItems(t, open, v.last + 2, Append(acc, v))
    ELSE IF IsOp(t, v.last + 1, "]") THEN Node("list", <<>>, Append(acc, v), open, v.last + 1)
    ELSE NoParse

ParsePairs(t, open, k, acc) ==
    IF IsOp(t, k, "}") THEN Node("dict", <<>>, acc, open, k)
    ELSE AfterKey(t, open, acc, ParseValue(t, k))

AfterKey(t, open, acc, key) ==
    IF ~key.ok THEN NoParse
    ELSE IF ~IsOp(t, key.last + 1, ":") THEN NoParse
    ELSE AfterPair(t, open, acc, key, ParseValue(t, key.last + 2))

AfterPair(t, open, acc, key, v) ==
    IF ~v.ok THEN NoParse
    ELSE IF IsOp(t, v.last + 1, ",")
    THEN ParsePairs(t, open, v.last + 2, Append(acc, [key |-> key, value |-> v]))
    ELSE IF IsOp(t, v.last + 1, "}")
    THEN Node("dict", <<>>, Append(acc, [key |-> key, value |-> v]), open, v.last + 1)
    ELSE NoParse

\* ast_dict_expr, = ast_tree.body; ast_dict = ast_dict_expr.value
\* [ok, toks, dict]: ok is FALSE when the source is not exactly one expression
\* statement that is a dict display (SyntaxError, ValueError, AttributeError).
AstOfValue(t, v) ==
    IF ~v.ok THEN NoParse
    ELSE IF v.last # Len(t) \/ v.kind # "dict" THEN NoParse
    ELSE [ok |-> TRUE, toks |-> t, dict |-> v]

AstOfTokens(t) ==
    IF \E k \in DOMAIN t : t[k].type = "ERR" THEN NoParse ELSE AstOfValue(t, ParseValue(t, 1))

AstDict(manifest_source) == AstOfTokens(Tokens(manifest_source, 0))

\* ------------------------------------------------------- formatting sniffer

ALLOWED_INDENTATIONS == <<4, 2, 3>>

\* manifest_source.count("'") against manifest_source.count('"')
_determine_quote_char(manifest_source) ==
    IF Count(manifest_source, "\"") >= Count(manifest_source, "'") THEN "\"" ELSE "'"

\* the factors a line of leading_spaces spaces votes for, in the order of
\* ALLOWED_INDENTATIONS
FactorsOf(leading_spaces) ==
    SelectSeq(ALLOWED_INDENTATIONS, LAMBDA f : leading_spaces % f = 0)

LineVotes(line) ==
    IF \A i \in DOMAIN line : line[i] \in Blank THEN <<>>
    ELSE IF Head(line) # " " THEN <<>>
    ELSE FactorsOf(LeadingSpaces(line))

AllVotes(lines) == Concat([k \in DOMAIN lines |-> LineVotes(lines[k])])

\* Counter(indentations).most_common(1): the most frequent factor, the one seen
\* first among equally frequent ones.  [ok |-> FALSE] is the RuntimeError.
MostCommon(indentations) ==
    LET n(f)     == Cardinality({i \in DOMAIN indentations : indentations[i] = f})
        first(f) == Min({i \in DOMAIN indentations : indentations[i] = f})
    IN  IF indentations = <<>> THEN [ok |-> FALSE]
        ELSE [ok |-> TRUE,
              element |-> CHOOSE f \in Range(indentations) :
                             \A g \in Range(indentations) \ {f} :
                                n(f) > n(g) \/ (n(f) = n(g) /\ first(f) < first(g))]

_determine_indentation(manifest_source) == MostCommon(AllVotes(SplitLines(manifest_source, 0)))

\* ------------------------------------------------------ literal serializer
\* A value handed to json.dumps: [kind |-> "s", body] a string,
\* [kind |-> "l", items] a list, [kind |-> "d", items] a dict whose items are
\* [key, value] records in insertion order.

JStr(body) == [kind |-> "s", body |-> body, items |-> <<>>]

JList(paths) == [kind |-> "l", body |-> <<>>, items |-> [i \in DOMAIN paths |-> JStr(paths[i])]]

JDict(items) == [kind |-> "d", body |-> <<>>, items |-> items]

\* a, sep, b, sep, c for the texts <<a, b, c>>
RECURSIVE Join(_, _)
Join(texts, sep) ==
    IF texts = <<>> THEN <<>>
    ELSE IF Len(texts) = 1 THEN texts[1]
    ELSE texts[1] \o sep \o Join(Tail(texts), sep)

\* json.dumps(value, indent=indent) at nesting level lvl
RECURSIVE JsonDumps(_, _, _)
JsonDumps(v, indent, lvl) ==
    IF v.kind = "s" THEN <<"\"">> \o v.body \o <<"\"">>
    ELSE IF v.items = <<>> THEN (IF v.kind = "l" THEN <<"[", "]">> ELSE <<"{", "}">>)
    ELSE IF v.kind = "l"
    THEN <<"[", "\n">>
         \o Join([i \in DOMAIN v.items |->
                    Spaces(indent * (lvl + 1)) \o JsonDumps(v.items[i], indent, lvl + 1)],
                 <<",", "\n">>)
         \o <<"\n">> \o Spaces(indent * lvl) \o <<"]">>
    ELSE <<"{", "\n">>
         \o Join([i \in DOMAIN v.items |->
                    Spaces(indent * (lvl + 1)) \o <<"\"">> \o v.items[i].key \o <<"\"", ":", " ">>
                    \o JsonDumps(v.items[i].value, indent, lvl + 1)],
                 <<",", "\n">>)
         \o <<"\n">> \o Spaces(indent * lvl) \o <<"}">>

\* if quote_char == "'": assets_str = assets_str.replace('"', quote_char)
Requote(assets_str, quote_char) ==
    IF quote_char = "'" THEN ReplaceAll(assets_str, <<"\"">>, <<"'">>) ELSE assets_str

_format_dict(dictionary, quote_char, indentation) ==
    Requote(ReplaceAll(ReplaceAll(JsonDumps(dictionary, indentation, 0),
                                  <<":", " ", "true">>, <<":", " ", "T", "rue">>),
                       <<":", " ", "false">>, <<":", " ", "F", "alse">>),
            quote_char)

\* ---------------------------------------------------- manifest text locator
\* Each returns [ok |-> FALSE] where the Python raises.

\* last_token.endpos, moved past a "," that follows it
InjectIndexAt(manifest_source, assets_inject_index) ==
    IF assets_inject_index >= Len(manifest_source) THEN [ok |-> FALSE]
    ELSE [ok |-> TRUE,
          index |-> IF At(manifest_source, assets_inject_index) = ","
                    THEN assets_inject_index + 1 ELSE assets_inject_index]

InjectIndexOf(manifest_source, a) ==
    IF ~a.ok THEN [ok |-> FALSE]
    ELSE IF a.dict.items = <<>> THEN [ok |-> FALSE]
    ELSE InjectIndexAt(manifest_source,
                       a.toks[a.dict.items[Len(a.dict.items)].value.last].endpos)

_find_assets_inject_index(manifest_source) ==
    InjectIndexOf(manifest_source, AstDict(manifest_source))

\* token index of previous_last_token when the loop reaches pair i
PreviousLastToken(dict, i) == IF i = 1 THEN dict.first ELSE dict.items[i - 1].value.last

\* the first pair whose key is the string constant `name`, 0 when there is none
KeyHits(dict, name) ==
    {i \in DOMAIN dict.items : dict.items[i].key.kind = "str" /\ dict.items[i].key.body = name}

FirstKey(dict, name) == IF KeyHits(dict, name) = {} THEN 0 ELSE Min(KeyHits(dict, name))

\* index_start: int = first_token.startpos + 1; if manifest_source[index_start] == ","
DataRangeAt(manifest_source, index_start, index_end) ==
    [ok |-> TRUE,
     index_start |-> IF At(manifest_source, index_start) = "," THEN index_start + 1
                     ELSE index_start,
     index_end |-> index_end]

DataRangeOfPair(manifest_source, a, i) ==
    IF i = 0 THEN [ok |-> FALSE]
    ELSE DataRangeAt(manifest_source,
                     a.toks[PreviousLastToken(a.dict, i)].startpos + 1,
                     a.toks[a.dict.items[i].value.last].endpos)

DataRangeOf(manifest_source, a) ==
    IF ~a.ok THEN [ok |-> FALSE]
    ELSE DataRangeOfPair(manifest_source, a, FirstKey(a.dict, <<"data">>))

_find_data_index_range(manifest_source) ==
    DataRangeOf(manifest_source, AstDict(manifest_source))

QwebRangeOfPair(a, i) ==
    IF i = 0 THEN [ok |-> FALSE]
    ELSE [ok |-> TRUE,
          index_start |-> a.toks[PreviousLastToken(a.dict, i)].startpos + 1,
          index_end |-> a.toks[a.dict.items[i].value.last].endpos]

QwebRangeOf(a) ==
    IF ~a.ok THEN [ok |-> FALSE] ELSE QwebRangeOfPair(a, FirstKey(a.dict, <<"qweb">>))

_find_qweb_index_range(manifest_source) == QwebRangeOf(AstDict(manifest_source))

\* --------------------------------------------------------- manifest patcher

\* assets: the defaultdict as a sequence of [id, paths] in insertion order
AssetsJson(assets) ==
    JDict(<<[key |-> <<"assets">>,
             value |-> JDict([i \in DOMAIN assets |->
                                [key |-> <<assets[i].id>>, value |-> JList(assets[i].paths)]])]>>)

DataJson(data) == JDict(<<[key |-> <<"data">>, value |-> JList(data)]>>)

\* text[1:len(text) - 1].rstrip()
StripBraces(text) == RStrip(Slice(text, 1, Len(text) - 1))

InjectAt(manifest_source, found, assets_dict_str) ==
    IF ~found.ok THEN [ok |-> FALSE]
    ELSE [ok |-> TRUE,
          source |-> Upto(manifest_source, found.index)
                     \o (IF At(manifest_source, found.index - 1) # "," THEN <<",">> ELSE <<>>)
                     \o assets_dict_str
                     \o From(manifest_source, found.index)]

_inject_assets_dict(manifest_source, assets, quote_char, indentation) ==
    InjectAt(manifest_source, _find_assets_inject_index(manifest_source),
             StripBraces(_format_dict(AssetsJson(assets), quote_char, indentation)))

ReplaceAt(manifest_source, found, data_list_str) ==
    IF ~found.ok THEN [ok |-> FALSE]
    ELSE [ok |-> TRUE,
          source |-> Upto(manifest_source, found.index_start) \o data_list_str
                     \o From(manifest_source, found.index_end)]

_replace_data_list(manifest_source, data, quote_char, indentation) ==
    ReplaceAt(manifest_source, _find_data_index_range(manifest_source),
              StripBraces(_format_dict(DataJson(data), quote_char, indentation)))

RemoveAt(manifest_source, found) ==
    IF ~found.ok THEN [ok |-> FALSE]
    ELSE [ok |-> TRUE,
          source |-> Upto(manifest_source, found.index_start)
                     \o From(manifest_source, found.index_end)]

_remove_qweb_list(manifest_source) ==
    RemoveAt(manifest_source, _find_qweb_index_range(manifest_source))

\* os.path.join(a, b) on POSIX
PathJoin(a, b) ==
    IF b # <<>> /\ Head(b) = "/" THEN b
    ELSE IF a = <<>> \/ a[Len(a)] = "/" THEN a \o b
    ELSE a \o <<"/">> \o b

EnsurePath(asset_path, module_name) ==
    LET root_path == <<"/">> \o module_name IN
    IF ~StartsWith(asset_path, root_path) /\ ~StartsWith(asset_path, module_name)
    THEN PathJoin(root_path, asset_path) ELSE asset_path

_ensure_asset_paths_start_with_module_name(assets, module_name) ==
    [b \in DOMAIN assets |->
        [id |-> assets[b].id,
         paths |-> [i \in DOMAIN assets[b].paths |-> EnsurePath(assets[b].paths[i], module_name)]]]

\* ------------------------------------------------------------ the inputs
\* The manifest files the step is run on: one key per line, in any order,
\* with or without a trailing comma, in either quote style.

RECURSIVE RenderList(_, _, _)
RenderList(paths, q, i) ==
    IF i > Len(paths) THEN <<>>
    ELSE <<q>> \o paths[i] \o <<q>>
         \o (IF i = Len(paths) THEN <<>> ELSE <<",", " ">>) \o RenderList(paths, q, i + 1)

RenderValue(key, data, qweb, q) ==
    IF key = "name" THEN <<q, "X", q>>
    ELSE IF key = "installable" THEN <<"T", "rue">>
    ELSE IF key = "data" THEN <<"[">> \o RenderList(data, q, 1) \o <<"]">>
    ELSE <<"[">> \o RenderList(qweb, q, 1) \o <<"]">>

RECURSIVE RenderLines(_, _, _, _, _, _, _)
RenderLines(keys, data, qweb, q, ind, comma, i) ==
    IF i > Len(keys) THEN <<>>
    ELSE Spaces(ind) \o <<q, keys[i], q, ":", " ">> \o RenderValue(keys[i], data, qweb, q)
         \o (IF i < Len(keys) \/ comma THEN <<",">> ELSE <<>>) \o <<"\n">>
         \o RenderLines(keys, data, qweb, q, ind, comma, i + 1)

RenderManifest(keys, data, qweb, q, ind, comma) ==
    <<"{", "\n">> \o RenderLines(keys, data, qweb, q, ind, comma, 1) \o <<"}", "\n">>

\* --------------------------------------------------------------- XML trees
\* A view file is held as the list of its root's children.  A node is an
\* element, a comment, a blank line of the file ("blank") or the processing
\* instruction that stands for a blank line in the parsed tree ("pi").  An
\* absent attribute and an empty one are both <<>> (both are falsy in Python).
\* The layout of the XML text (indentation, quotes of the declaration) is not
\* modelled.

ASSET_VIEWS ==
    {"mass_mailing.assets_backend", "mass_mailing.assets_mail_themes",
     "mass_mailing.assets_mail_themes_edition", "mrp.assets_common",
     "point_of_sale.assets", "point_of_sale.pos_assets_backend",
     "snailmail.report_assets_snailmail", "stock.assets_stock_print_report",
     "survey.survey_assets", "survey.survey_user_input_session_assets",
     "web.assets_backend", "web.assets_backend_prod_only", "web.assets_common",
     "web.assets_common_lazy", "web.assets_common_minimal_js", "web.assets_frontend",
     "web.assets_frontend_lazy", "web.assets_frontend_minimal_js", "web.assets_qweb",
     "web.assets_tests", "web.pdf_js_lib", "web.qunit_mobile_suite_tests",
     "web.qunit_suite_tests", "web.report_assets_common", "web.report_assets_pdf",
     "web.tests_assets", "website.assets_frontend", "website.assets_editor",
     "website.assets_frontend_editor", "website.assets_wysiwyg",
     "website_slides.slide_embed_assets", "website.test_bundle",
     "web_editor.assets_summernote", "web_editor.assets_wysiwyg",
     "web_enterprise.assets_backend", "web_enterprise.assets_common",
     "web_enterprise._assets_backend_helpers"}

EMPTY_LINE_PLACEHOLDER == "<?empty-line-oixbckyh?>"

Elem(tag, inherit_id, expr, src, href, kids) ==
    [kind |-> "elem", tag |-> tag, inherit_id |-> inherit_id, expr |-> expr,
     src |-> src, href |-> href, kids |-> kids]

Other(kind, tag) ==
    [kind |-> kind, tag |-> tag, inherit_id |-> "", expr |-> FALSE,
     src |-> <<>>, href |-> <<>>, kids |-> <<>>]

\* A blank line becomes the placeholder instruction before parsing ...
RECURSIVE WithPlaceholders(_)
WithPlaceholders(kids) ==
    [i \in DOMAIN kids |->
        IF kids[i].kind = "blank" THEN Other("pi", EMPTY_LINE_PLACEHOLDER)
        ELSE [kids[i] EXCEPT !.kids = WithPlaceholders(kids[i].kids)]]

\* ... and a line holding only the placeholder becomes a blank line again.
RECURSIVE WithoutPlaceholders(_)
WithoutPlaceholders(kids) ==
    [i \in DOMAIN kids |->
        IF kids[i].kind = "pi" /\ kids[i].tag = EMPTY_LINE_PLACEHOLDER THEN Other("blank", "")
        ELSE [kids[i] EXCEPT !.kids = WithoutPlaceholders(kids[i].kids)]]

\* A file of the module directory: state "ok" with its root's children,
\* "malformed" (not well-formed XML) or "absent".
File(state, kids) == [state |-> state, kids |-> kids]

\* [ok |-> FALSE] is the FileNotFoundError or the XMLSyntaxError
_parse_xml_file(file) ==
    IF file.state # "ok" THEN [ok |-> FALSE]
    ELSE [ok |-> TRUE, tree |-> WithPlaceholders(file.kids)]

_serialize_xml_tree(tree) == File("ok", WithoutPlaceholders(tree))

\* node.iter(tag=et.Element) without node itself: the element descendants
RECURSIVE _has_regular_subnodes(_)
_has_regular_subnodes(kids) ==
    \E i \in DOMAIN kids : kids[i].kind = "elem" \/ _has_regular_subnodes(kids[i].kids)

\* a removal that does not look at the node's children
RemoveUnconditionally(kids) == TRUE

\* TRUE when the node, whose children are now kids, is taken out of its parent
_remove_node_from_xml(kids) == ~_has_regular_subnodes(kids)

\* file.get("src") or file.get("href")
ElemFilePath(file) == IF file.src # <<>> THEN file.src ELSE file.href

\* what the loops over a node's children give: the children the node keeps,
\* the paths collected and the nodes removed, each in document order
Untouched(node) == [kids |-> node.kids, collected |-> <<>>, removed |-> <<>>]

\* for file in xpath_elem.getchildren(): lines 90-93
MigrateXpath(xpath_elem) ==
    LET kids == xpath_elem.kids
        hit(i) == ElemFilePath(kids[i]) # <<>>
        gone(i) == hit(i) /\ _remove_node_from_xml(kids[i].kids)
    IN  [kids |-> Concat([i \in DOMAIN kids |-> IF gone(i) THEN <<>> ELSE <<kids[i]>>]),
         collected |-> Concat([i \in DOMAIN kids |->
                                 IF hit(i) THEN <<ElemFilePath(kids[i])>> ELSE <<>>]),
         removed |-> Concat([i \in DOMAIN kids |-> IF gone(i) THEN <<kids[i]>> ELSE <<>>])]

\* The children listed in visited have been migrated, with results rs; each of
\* them is then handed to _remove_node_from_xml (lines 95 and 96).
AfterChildren(kids, visited, rs) ==
    LET after(i) == [kids[i] EXCEPT !.kids = rs[i].kids]
        gone(i) == i \in visited /\ _remove_node_from_xml(rs[i].kids)
    IN  [kids |-> Concat([i \in DOMAIN kids |-> IF gone(i) THEN <<>> ELSE <<after(i)>>]),
         collected |-> Concat([i \in DOMAIN kids |-> rs[i].collected]),
         removed |-> Concat([i \in DOMAIN kids |->
                               rs[i].removed \o (IF gone(i) THEN <<after(i)>> ELSE <<>>)])]

\* node.xpath("xpath[@expr]")
IsXpathExpr(n) == n.kind = "elem" /\ n.tag = "xpath" /\ n.expr

\* for xpath_elem in node.xpath("xpath[@expr]"): lines 89-95
MigrateNode(node) ==
    AfterChildren(node.kids, {i \in DOMAIN node.kids : IsXpathExpr(node.kids[i])},
                  [i \in DOMAIN node.kids |->
                     IF IsXpathExpr(node.kids[i]) THEN MigrateXpath(node.kids[i])
                     ELSE Untouched(node.kids[i])])

\* the paths collected under a node, each with the node's inherit_id
WithId(inherit_id, r) ==
    [kids |-> r.kids,
     collected |-> [k \in DOMAIN r.collected |-> [id |-> inherit_id, path |-> r.collected[k]]],
     removed |-> r.removed]

\* for node in tree.getchildren(): lines 84-96; tree is the root's children
MigrateTree(tree) ==
    AfterChildren(tree, {i \in DOMAIN tree : tree[i].inherit_id \in ASSET_VIEWS},
                  [i \in DOMAIN tree |->
                     IF tree[i].inherit_id \in ASSET_VIEWS
                     THEN WithId(tree[i].inherit_id, MigrateNode(tree[i]))
                     ELSE Untouched(tree[i])])

\* assets[asset_type].append(asset_file) on a defaultdict(list)
_add_asset_to_manifest(assets, asset_type, asset_file) ==
    IF \E b \in DOMAIN assets : assets[b].id = asset_type
    THEN [b \in DOMAIN assets |->
            IF assets[b].id = asset_type
            THEN [assets[b] EXCEPT !.paths = Append(@, asset_file)] ELSE assets[b]]
    ELSE Append(assets, [id |-> asset_type, paths |-> <<asset_file>>])

RECURSIVE AddAssets(_, _)
AddAssets(assets, collected) ==
    IF collected = <<>> THEN assets
    ELSE AddAssets(_add_asset_to_manifest(assets, Head(collected).id, Head(collected).path),
                   Tail(collected))

\* assets_dict["web.assets_qweb"].extend(qweb): the key is created on access
ExtendQweb(assets, qweb) ==
    IF \E b \in DOMAIN assets : assets[b].id = "web.assets_qweb"
    THEN [b \in DOMAIN assets |->
            IF assets[b].id = "web.assets_qweb"
            THEN [assets[b] EXCEPT !.paths = @ \o qweb] ELSE assets[b]]
    ELSE Append(assets, [id |-> "web.assets_qweb", paths |-> qweb])

\* data.remove(file): the first occurrence goes
_remove_asset_file_from_manifest(data, file) ==
    LET i == Min({k \in DOMAIN data : data[k] = file})
    IN  SubSeq(data, 1, i - 1) \o SubSeq(data, i + 1, Len(data))

\* ---------------------------------------------------- the manifest as a dict
\* tools._get_manifest_dict(manifest_path): the manifest evaluated as a literal.
\* [ok |-> FALSE] when the text is not one literal mapping with string keys.

IsLiteral(v) ==
    \/ v.kind = "str"
    \/ v.kind = "name" /\ v.body \in {<<"T", "rue">>, <<"F", "alse">>}
    \/ v.kind = "list" /\ \A i \in DOMAIN v.items : v.items[i].kind = "str"
    \/ v.kind = "dict" /\ \A i \in DOMAIN v.items :
            /\ v.items[i].key.kind = "str"
            /\ v.items[i].value.kind = "list"
            /\ \A k \in DOMAIN v.items[i].value.items : v.items[i].value.items[k].kind = "str"

_get_manifest_dict(source) ==
    LET a == AstDict(source) IN
    IF ~a.ok THEN [ok |-> FALSE]
    ELSE IF \E i \in DOMAIN a.dict.items :
                a.dict.items[i].key.kind # "str" \/ ~IsLiteral(a.dict.items[i].value)
    THEN [ok |-> FALSE]
    ELSE [ok |-> TRUE, items |-> a.dict.items]

\* "key" in manifest
HasKey(items, key) == \E i \in DOMAIN items : items[i].key.body = key

\* manifest[key] for a key whose value is a list of strings: a later
\* occurrence of a key overrides an earlier one
ListOf(items, key) ==
    LET i == CHOOSE k \in DOMAIN items :
                 items[k].key.body = key /\ \A j \in DOMAIN items : items[j].key.body = key => j <= k
        v == items[i].value
    IN  [k \in DOMAIN v.items |-> v.items[k].body]

\* ------------------------------------------------ template expression pass
\* search_directories works on the raw text of a view file.  Of the text only
\* the units the three patterns can tell apart are kept: "t", "-", "raw",
\* "esc", "ou", "${", "}", "|safe", "| safe", "{{ ", " }}" and "x", which is
\* any text without "}", "|", "$" and "t-".

value_pattern_to_match == <<"${([^}|]+)(| ?safe)?}">>

value_replacement_text == <<"{{ ", "\\1", " }}">>

t_raw == <<"t", "-", "raw">>

t_esc == <<"t", "-", "esc">>

t_out == <<"t", "-", "ou", "t">>

\* re.search("^.*\.(xml)$", file_name)
file_type_to_match(name) == EndsWith(name, <<".xml">>)

\* [^}|]+ from offset i: the offset of the first unit with "}" or "|"
GroupEnd(s, i) ==
    Min({j \in i..Len(s) : j = Len(s) \/ At(s, j) \in {"}", "|safe", "| safe"}})

\* \${([^}|]+)(\| ?safe)?} at offset i, the group ending at g: the end of the
\* match, 0 when there is none
ValueMatchEnd(s, i, g) ==
    IF g = i + 1 \/ g >= Len(s) THEN 0
    ELSE IF At(s, g) = "}" THEN g + 1
    ELSE IF g + 1 < Len(s) /\ At(s, g + 1) = "}" THEN g + 2
    ELSE 0

\* the end of the match of pattern at offset i, 0 when there is none
MatchEnd(s, pattern, i) ==
    IF pattern = value_pattern_to_match
    THEN IF i < Len(s) /\ At(s, i) = "${" THEN ValueMatchEnd(s, i, GroupEnd(s, i + 1)) ELSE 0
    ELSE IF MatchAt(s, pattern, i) THEN i + Len(pattern) ELSE 0

\* the offset of the leftmost match in s[i:], len(s) when there is none
FirstMatch(s, pattern, i) ==
    Min({j \in i..Len(s) : j = Len(s) \/ MatchEnd(s, pattern, j) > 0})

\* re.search(pattern, s)
Search(pattern, s) == FirstMatch(s, pattern, 0) < Len(s)

\* the replacement text with \1 filled in
Expand(replacement_text, group) ==
    Concat([k \in DOMAIN replacement_text |->
              IF replacement_text[k] = "\\1" THEN group ELSE <<replacement_text[k]>>])

\* re.sub(pattern, repl, s): every non-overlapping match, leftmost first
RECURSIVE ReSubFrom(_, _, _, _), ReSubStep(_, _, _, _, _)
ReSubFrom(s, pattern, repl, i) == ReSubStep(s, pattern, repl, i, FirstMatch(s, pattern, i))

ReSubStep(s, pattern, repl, i, m) ==
    IF m >= Len(s) THEN From(s, i)
    ELSE Slice(s, i, m) \o Expand(repl, Slice(s, m + 1, GroupEnd(s, m + 1)))
         \o ReSubFrom(s, pattern, repl, MatchEnd(s, pattern, m))

\* re.sub(pattern, repl, s, count=1)
ReplaceFirstOnly(s, pattern, repl) ==
    IF ~Search(pattern, s) THEN s
    ELSE Upto(s, FirstMatch(s, pattern, 0))
         \o Expand(repl, Slice(s, FirstMatch(s, pattern, 0) + 1,
                               GroupEnd(s, FirstMatch(s, pattern, 0) + 1)))
         \o From(s, MatchEnd(s, pattern, FirstMatch(s, pattern, 0)))

\* the text replace_pattern_in_xml writes back for the text it read
replace_pattern_in_xml(xml_content, pattern_to_match, replacement_text) ==
    ReSubFrom(xml_content, pattern_to_match, replacement_text, 0)

\* ------------------------------------------------------------------ bounds

MaxKeys == 3

MaxData == 2

MaxLeaves == 2

MaxRuns == 2

MaxWords == 3

\* ------------------------------------------------------------------- state

VARIABLES
    pc,                 \* where reformat_assets_definition stands
    run,                \* 1 for the first run on the module, 2 for the next, ...
    manifestDisk,       \* the manifest file
    files,              \* the view files of the module directory, by path
    manifest_source, quote_char, indentation, manifest,
    assets_dict, data_list_original, data_list, has_qweb_list,
    idx,                \* position of the for loop in data_list_original
    stage,              \* position in the manifest edits of lines 113-119
    \* what the run did, kept to state the properties
    manifest0,          \* the manifest file when the run started
    fsLog,              \* the file-system effects of the run, in order
    processed,          \* per processed .xml entry: [path, emptied]
    collected,          \* the [id, path] pairs taken from view files in the run
    removed,            \* the nodes taken out of a tree in the run
    survivors,          \* the trees written back in the run
    edits,              \* the manifest edits applied: [edit, base, result]
    injected,           \* the assets mappings injected in the run
    prevDisk,           \* the manifest file as the previous run left it
    \* search_directories
    tpc,                \* where search_directories stands with the file
    file_name,          \* the file os.walk has come to
    xml_text,           \* the text of that file on disk
    data,               \* the text read at line 362
    match_found,        \* which of the three match lists got the file, in order
    text0               \* the text of the file when the walk came to it

textVars == <<tpc, file_name, xml_text, data, match_found, text0>>

vars == <<pc, run, manifestDisk, files, manifest_source, quote_char, indentation, manifest,
          assets_dict, data_list_original, data_list, has_qweb_list, idx, stage,
          manifest0, fsLog, processed, collected, removed, survivors, edits, injected,
          prevDisk, textVars>>

locals == <<manifest_source, quote_char, indentation, manifest, assets_dict,
            data_list_original, data_list, has_qweb_list, idx, stage>>

history == <<manifest0, fsLog, processed, collected, removed, survivors, edits, injected,
             prevDisk>>

module_name == <<"m">>

manifest_path == <<"__manifest__", ".py">>

AXml == <<"a", ".xml">>

XmlFiles == {AXml}

DataFiles == {AXml, <<"c", ".csv">>}

QwebLists == {<<>>, << <<"q", ".xml">> >>}

Keys == {"name", "installable", "data", "qweb"}

SeqsUpTo(S, n) == UNION {[1..k -> S] : k \in 0..n}

\* the keys of a manifest, in the order they are written
Layouts == {ks \in SeqsUpTo(Keys, MaxKeys) : \A i, j \in DOMAIN ks : ks[i] = ks[j] => i = j}

\* quote character, indentation width, trailing comma after the last value
Styles == {<<"'", 4, TRUE>>, <<"\"", 2, FALSE>>, <<"'", 0, TRUE>>}

\* the leaves of an xpath: a script of the module, a script of another
\* module, a stylesheet link that holds an element of its own, an element
\* without src and href, a comment
Leaves ==
    {Elem("script", "", FALSE, <<"a", ".js">>, <<>>, <<>>),
     Elem("script", "", FALSE, <<"/", "o", "/", "a", ".js">>, <<>>, <<>>),
     Elem("link", "", FALSE, <<>>, <<"/", "m", "/", "b", ".css">>,
          <<Elem("t", "", FALSE, <<>>, <<>>, <<>>)>>),
     Elem("t", "", FALSE, <<>>, <<>>, <<>>),
     Other("comment", "")}

Xpath(kids) == Elem("xpath", "", TRUE, <<>>, <<>>, kids)

Template(inherit_id, kids) == Elem("template", inherit_id, FALSE, <<>>, <<>>, kids)

\* the children of a root: patches of an asset bundle, a patch of another
\* view, a patch whose xpath has no expr, a record, a blank line
RootNodes ==
    {Template("web.assets_backend", <<Xpath(ls)>>) : ls \in SeqsUpTo(Leaves, MaxLeaves)}
    \cup {Template("web.assets_backend", <<>>),
          Template("sale.view", <<Xpath(<<Elem("script", "", FALSE, <<"a", ".js">>, <<>>, <<>>)>>)>>),
          Template("web.assets_common",
                   <<Elem("xpath", "", FALSE, <<>>, <<>>,
                          <<Elem("script", "", FALSE, <<"a", ".js">>, <<>>, <<>>)>>)>>),
          Elem("record", "", FALSE, <<>>, <<>>, <<>>),
          Other("blank", "")}

\* the view files: no node, one node, one node before a record, one node
\* after a patch of web.assets_frontend
Trees ==
    {<<>>}
    \cup {<<n>> : n \in RootNodes}
    \cup {<<n, Elem("record", "", FALSE, <<>>, <<>>, <<>>)>> : n \in RootNodes}
    \cup {<<Template("web.assets_frontend",
                     <<Xpath(<<Elem("script", "", FALSE, <<"a", ".js">>, <<>>, <<>>)>>)>>), n>> :
             n \in RootNodes}

\* a.xml in the runs that vary the manifest: emptied by the migration, kept,
\* not well-formed, not there
FewFiles ==
    {File("ok", <<Template("web.assets_backend",
                           <<Xpath(<<Elem("script", "", FALSE, <<"a", ".js">>, <<>>, <<>>)>>)>>)>>),
     File("ok", <<Elem("record", "", FALSE, <<>>, <<>>, <<>>)>>),
     File("malformed", <<>>),
     File("absent", <<>>)}

InitLocals ==
    /\ manifest_source = <<>>
    /\ quote_char = ""
    /\ indentation = 0
    /\ manifest = <<>>
    /\ assets_dict = <<>>
    /\ data_list_original = <<>>
    /\ data_list = <<>>
    /\ has_qweb_list = FALSE
    /\ idx = 0
    /\ stage = 0

InitHistory ==
    /\ manifest0 = manifestDisk
    /\ fsLog = <<>>
    /\ processed = <<>>
    /\ collected = <<>>
    /\ removed = <<>>
    /\ survivors = <<>>
    /\ edits = <<>>
    /\ injected = <<>>
    /\ prevDisk = <<>>

\* search_directories is not running
NoText ==
    /\ tpc = "idle"
    /\ file_name = <<>>
    /\ xml_text = <<>>
    /\ data = <<>>
    /\ match_found = <<>>
    /\ text0 = <<>>

\* Either the manifest varies over every layout, data list, qweb list and
\* style with a.xml one of FewFiles, or a.xml varies over every tree under
\* one manifest.
Init ==
    /\ pc = "start"
    /\ run = 1
    /\ \/ \E ks \in Layouts, st \in Styles, d \in SeqsUpTo(DataFiles, MaxData), q \in QwebLists,
             f \in FewFiles :
             /\ (\A i \in DOMAIN ks : ks[i] # "data") => d = <<>>
             /\ (\A i \in DOMAIN ks : ks[i] # "qweb") => q = <<>>
             /\ (\A i \in DOMAIN d : d[i] # AXml) => f = File("absent", <<>>)
             /\ manifestDisk = RenderManifest(ks, d, q, st[1], st[2], st[3])
             /\ files = [p \in XmlFiles |-> f]
       \/ \E t \in Trees :
             /\ manifestDisk = RenderManifest(<<"data", "name">>, <<AXml>>, <<>>, "'", 4, TRUE)
             /\ files = [p \in XmlFiles |-> File("ok", t)]
    /\ InitLocals
    /\ InitHistory
    /\ NoText

\* ----------------------------------------------- reformat_assets_definition

FsWrite(path) == [op |-> "write", path |-> path]

FsRemove(path) == [op |-> "remove", path |-> path]

\* lines 66-76 when nothing raises
ReadDone(m) ==
    /\ manifest' = m
    /\ data_list_original' = (IF HasKey(m, <<"data">>) THEN ListOf(m, <<"data">>) ELSE <<>>)
    /\ data_list' = (IF HasKey(m, <<"data">>) THEN ListOf(m, <<"data">>) ELSE <<>>)

\* lines 70-72: the indentation found and the manifest dict read
ReadWith(found, m) ==
    /\ found.ok
    /\ m.ok
    /\ indentation' = found.element
    /\ ReadDone(m.items)

ReadManifest ==
    /\ pc = "start"
    /\ ReadWith(_determine_indentation(manifestDisk), _get_manifest_dict(manifestDisk))
    /\ manifest_source' = manifestDisk
    /\ quote_char' = _determine_quote_char(manifestDisk)
    /\ assets_dict' = <<>>
    /\ idx' = 1
    /\ pc' = "loop"
    /\ UNCHANGED <<run, manifestDisk, files, has_qweb_list, stage, history>>
    /\ UNCHANGED textVars

\* lines 66-72 when _determine_indentation or tools._get_manifest_dict raises
ReadManifestFails ==
    /\ pc = "start"
    /\ ~_determine_indentation(manifestDisk).ok \/ ~_get_manifest_dict(manifestDisk).ok
    /\ manifest_source' = manifestDisk
    /\ quote_char' = _determine_quote_char(manifestDisk)
    /\ pc' = "error"
    /\ UNCHANGED <<run, manifestDisk, files, indentation, manifest, assets_dict,
                   data_list_original, data_list, has_qweb_list, idx, stage, history>>
    /\ UNCHANGED textVars

InLoop == pc = "loop" /\ idx <= Len(data_list_original)

\* lines 79-80
SkipNonXml ==
    /\ InLoop
    /\ ~EndsWith(data_list_original[idx], <<".xml">>)
    /\ idx' = idx + 1
    /\ UNCHANGED <<pc, run, manifestDisk, files, manifest_source, quote_char, indentation,
                   manifest, assets_dict, data_list_original, data_list, has_qweb_list, stage,
                   history>>
    /\ UNCHANGED textVars

\* lines 82-83 when _parse_xml_file raises
ParseXmlFails ==
    /\ InLoop
    /\ EndsWith(data_list_original[idx], <<".xml">>)
    /\ ~_parse_xml_file(files[data_list_original[idx]]).ok
    /\ pc' = "error"
    /\ UNCHANGED <<run, manifestDisk, files, locals, history>>
    /\ UNCHANGED textVars

\* lines 98-105: the tree is written back; the file of a root without element
\* children is then taken off the data list and removed
WriteBack(file_path, r, emptied) ==
    /\ files' = [files EXCEPT ![file_path] =
                    IF emptied THEN File("absent", <<>>) ELSE _serialize_xml_tree(r.kids)]
    /\ data_list' = IF emptied THEN _remove_asset_file_from_manifest(data_list, file_path)
                    ELSE data_list
    /\ fsLog' = fsLog \o <<FsWrite(file_path)>>
                      \o (IF emptied THEN <<FsRemove(file_path)>> ELSE <<>>)
    /\ processed' = Append(processed, [path |-> file_path, emptied |-> emptied])
    /\ survivors' = Append(survivors, r.kids)

\* lines 84-105 for a parsed tree whose migration gave r
Migrated(file_path, r) ==
    /\ assets_dict' = AddAssets(assets_dict, r.collected)
    /\ collected' = collected \o r.collected
    /\ removed' = removed \o r.removed
    /\ WriteBack(file_path, r, ~_has_regular_subnodes(r.kids))

\* lines 82-105: one .xml entry of the data list
MigrateXmlFile ==
    /\ InLoop
    /\ EndsWith(data_list_original[idx], <<".xml">>)
    /\ _parse_xml_file(files[data_list_original[idx]]).ok
    /\ Migrated(data_list_original[idx],
                MigrateTree(_parse_xml_file(files[data_list_original[idx]]).tree))
    /\ idx' = idx + 1
    /\ UNCHANGED <<pc, run, manifestDisk, manifest_source, quote_char, indentation, manifest,
                   data_list_original, has_qweb_list, stage, manifest0, edits, injected,
                   prevDisk>>
    /\ UNCHANGED textVars

\* lines 108-110
MoveQweb ==
    /\ pc = "loop"
    /\ idx > Len(data_list_original)
    /\ has_qweb_list' = HasKey(manifest, <<"qweb">>)
    /\ assets_dict' = IF HasKey(manifest, <<"qweb">>)
                      THEN ExtendQweb(assets_dict, ListOf(manifest, <<"qweb">>))
                      ELSE assets_dict
    /\ stage' = 1
    /\ pc' = "edit"
    /\ UNCHANGED <<run, manifestDisk, files, manifest_source, quote_char, indentation, manifest,
                   data_list_original, data_list, idx, history>>
    /\ UNCHANGED textVars

\* the edits with the insertion of "assets" last
DataFirstOrder == <<"data", "qweb", "assets">>

\* lines 113-119: the manifest edits in the order they are applied
EditOrder == <<"assets", "data", "qweb">>

InEdit(kind) == pc = "edit" /\ stage <= Len(EditOrder) /\ EditOrder[stage] = kind

\* the conditions of lines 113, 116 and 118
Applies(kind) ==
    IF kind = "assets" THEN assets_dict # <<>>
    ELSE IF kind = "data" THEN data_list_original # <<>> /\ data_list # data_list_original
    ELSE has_qweb_list

\* the edit's result, [ok |-> FALSE] when its span lookup raises
Edited(kind) ==
    IF kind = "assets"
    THEN _inject_assets_dict(manifest_source,
                             _ensure_asset_paths_start_with_module_name(assets_dict, module_name),
                             quote_char, indentation)
    ELSE IF kind = "data"
    THEN _replace_data_list(manifest_source, data_list, quote_char, indentation)
    ELSE _remove_qweb_list(manifest_source)

\* manifest_source = <the edit's result>
EditDone(kind, e) ==
    /\ e.ok
    /\ manifest_source' = e.source
    /\ edits' = Append(edits, [edit |-> kind, base |-> manifest_source, result |-> e.source])
    /\ stage' = stage + 1

\* line 114
Ensured(assets) ==
    /\ assets_dict' = assets
    /\ injected' = Append(injected, [before |-> assets_dict, after |-> assets])

\* lines 113-115
InjectAssets ==
    /\ InEdit("assets")
    /\ Applies("assets")
    /\ EditDone("assets", Edited("assets"))
    /\ Ensured(_ensure_asset_paths_start_with_module_name(assets_dict, module_name))
    /\ UNCHANGED <<pc, run, manifestDisk, files, quote_char, indentation, manifest,
                   data_list_original, data_list, has_qweb_list, idx,
                   manifest0, fsLog, processed, collected, removed, survivors, prevDisk>>
    /\ UNCHANGED textVars

\* lines 116-117
ReplaceData ==
    /\ InEdit("data")
    /\ Applies("data")
    /\ EditDone("data", Edited("data"))
    /\ UNCHANGED <<pc, run, manifestDisk, files, quote_char, indentation, manifest, assets_dict,
                   data_list_original, data_list, has_qweb_list, idx,
                   manifest0, fsLog, processed, collected, removed, survivors, injected, prevDisk>>
    /\ UNCHANGED textVars

\* lines 118-119
RemoveQweb ==
    /\ InEdit("qweb")
    /\ Applies("qweb")
    /\ EditDone("qweb", Edited("qweb"))
    /\ UNCHANGED <<pc, run, manifestDisk, files, quote_char, indentation, manifest, assets_dict,
                   data_list_original, data_list, has_qweb_list, idx,
                   manifest0, fsLog, processed, collected, removed, survivors, injected, prevDisk>>
    /\ UNCHANGED textVars

\* the condition of line 113, 116 or 118 is false
SkipEdit ==
    /\ pc = "edit" /\ stage <= Len(EditOrder)
    /\ ~Applies(EditOrder[stage])
    /\ stage' = stage + 1
    /\ UNCHANGED <<pc, run, manifestDisk, files, manifest_source, quote_char, indentation,
                   manifest, assets_dict, data_list_original, data_list, has_qweb_list, idx,
                   history>>
    /\ UNCHANGED textVars

\* the failed run saves what it has so far
EditFailsAndSaves ==
    /\ pc = "edit" /\ stage <= Len(EditOrder)
    /\ Applies(EditOrder[stage])
    /\ ~Edited(EditOrder[stage]).ok
    /\ manifestDisk' = manifest_source
    /\ pc' = "error"
    /\ UNCHANGED <<run, files, locals, history, textVars>>

\* a span lookup of lines 115, 117 or 119 raises
EditFails ==
    /\ pc = "edit" /\ stage <= Len(EditOrder)
    /\ Applies(EditOrder[stage])
    /\ ~Edited(EditOrder[stage]).ok
    /\ pc' = "error"
    /\ UNCHANGED <<run, manifestDisk, files, locals, history>>
    /\ UNCHANGED textVars

\* line 121: tools._write_content(manifest_path, manifest_source)
WriteManifest ==
    /\ pc = "edit" /\ stage > Len(EditOrder)
    /\ manifestDisk' = manifest_source
    /\ fsLog' = Append(fsLog, FsWrite(manifest_path))
    /\ pc' = "done"
    /\ UNCHANGED <<run, files, locals, manifest0, processed, collected, removed, survivors,
                   edits, injected, prevDisk>>
    /\ UNCHANGED textVars

\* the step is run again on the module as the run that completed left it
RunAgain ==
    /\ pc = "done"
    /\ run < MaxRuns
    /\ run' = run + 1
    /\ pc' = "start"
    /\ manifest_source' = <<>>
    /\ quote_char' = ""
    /\ indentation' = 0
    /\ manifest' = <<>>
    /\ assets_dict' = <<>>
    /\ data_list_original' = <<>>
    /\ data_list' = <<>>
    /\ has_qweb_list' = FALSE
    /\ idx' = 0
    /\ stage' = 0
    /\ manifest0' = manifestDisk
    /\ fsLog' = <<>>
    /\ processed' = <<>>
    /\ collected' = <<>>
    /\ removed' = <<>>
    /\ survivors' = <<>>
    /\ edits' = <<>>
    /\ injected' = <<>>
    /\ prevDisk' = manifestDisk
    /\ UNCHANGED <<manifestDisk, files>>
    /\ UNCHANGED textVars

Next ==
    \/ ReadManifest
    \/ ReadManifestFails
    \/ SkipNonXml
    \/ ParseXmlFails
    \/ MigrateXmlFile
    \/ MoveQweb
    \/ InjectAssets
    \/ ReplaceData
    \/ RemoveQweb
    \/ SkipEdit
    \/ EditFails
    \/ WriteManifest
    \/ RunAgain

Spec == Init /\ [][Next]_vars

\* ------------------------------------------------------- search_directories
\* One file of the walk.  The texts are up to MaxWords of these words.

Words ==
    {t_raw, t_esc, <<"-", "raw">>, <<"-", "esc">>, <<"${">>, <<"}">>, <<"|safe", "}">>, <<"x">>}

Texts == {Concat(ws) : ws \in SeqsUpTo(Words, MaxWords)}

FileNames == {<<"a", ".xml">>, <<"a", ".txt">>}

\* reformat_assets_definition is not running
NoAssets ==
    /\ pc = "idle"
    /\ run = 1
    /\ manifestDisk = <<>>
    /\ files = [p \in XmlFiles |-> File("absent", <<>>)]
    /\ InitLocals
    /\ InitHistory

InitText ==
    /\ tpc = "walk"
    /\ file_name \in FileNames
    /\ xml_text \in Texts
    /\ data = <<>>
    /\ match_found = <<>>
    /\ text0 = xml_text
    /\ NoAssets

assetVars == <<pc, run, manifestDisk, files, locals, history>>

\* line 360 false: the file is not a view file
SkipFile ==
    /\ tpc = "walk"
    /\ ~file_type_to_match(file_name)
    /\ tpc' = "done"
    /\ UNCHANGED <<file_name, xml_text, data, match_found, text0, assetVars>>

\* lines 361-362
OpenFile ==
    /\ tpc = "walk"
    /\ file_type_to_match(file_name)
    /\ data' = xml_text
    /\ tpc' = "value"
    /\ UNCHANGED <<file_name, xml_text, match_found, text0, assetVars>>

\* if data and re.search(pattern, data)
Found(pattern) == data # <<>> /\ Search(pattern, data)

\* lines 363-365
ValuePass ==
    /\ tpc = "value"
    /\ Found(value_pattern_to_match)
    /\ match_found' = Append(match_found, "value")
    /\ xml_text' = replace_pattern_in_xml(xml_text, value_pattern_to_match,
                                          value_replacement_text)
    /\ tpc' = "t_raw"
    /\ UNCHANGED <<file_name, data, text0, assetVars>>

\* line 363 false
NoValue ==
    /\ tpc = "value"
    /\ ~Found(value_pattern_to_match)
    /\ tpc' = "t_raw"
    /\ UNCHANGED <<file_name, xml_text, data, match_found, text0, assetVars>>

\* lines 366-368
RawPass ==
    /\ tpc = "t_raw"
    /\ Found(t_raw)
    /\ match_found' = Append(match_found, "t_raw")
    /\ xml_text' = replace_pattern_in_xml(xml_text, t_raw, t_out)
    /\ tpc' = "t_esc"
    /\ UNCHANGED <<file_name, data, text0, assetVars>>

\* line 366 false
NoRaw ==
    /\ tpc = "t_raw"
    /\ ~Found(t_raw)
    /\ tpc' = "t_esc"
    /\ UNCHANGED <<file_name, xml_text, data, match_found, text0, assetVars>>

\* lines 369-371
EscPass ==
    /\ tpc = "t_esc"
    /\ Found(t_esc)
    /\ match_found' = Append(match_found, "t_esc")
    /\ xml_text' = replace_pattern_in_xml(xml_text, t_esc, t_out)
    /\ tpc' = "done"
    /\ UNCHANGED <<file_name, data, text0, assetVars>>

\* line 369 false
NoEsc ==
    /\ tpc = "t_esc"
    /\ ~Found(t_esc)
    /\ tpc' = "done"
    /\ UNCHANGED <<file_name, xml_text, data, match_found, text0, assetVars>>

NextText ==
    \/ SkipFile
    \/ OpenFile
    \/ ValuePass
    \/ NoValue
    \/ RawPass
    \/ NoRaw
    \/ EscPass
    \/ NoEsc

SpecText == InitText /\ [][NextText]_vars

\* --------------------------------------------------------------- properties

\* the end offset of the value before pair i, or of the opening brace
PreviousEnd(a, i) == a.toks[PreviousLastToken(a.dict, i)].endpos

PastComma(s, i) == IF i < Len(s) /\ At(s, i) = "," THEN i + 1 ELSE i

SpanAsSpecified(s, a, i, found) ==
    /\ found.ok
    /\ found.index_start = PastComma(s, PreviousEnd(a, i))
    /\ found.index_end = a.toks[a.dict.items[i].value.last].endpos

SpanOfKey(s, a, name, found) ==
    FirstKey(a.dict, name) # 0 => SpanAsSpecified(s, a, FirstKey(a.dict, name), found)

\* C1: for the manifest just read, the span of "data" and the span of "qweb"
\* start at the end of the previous value's last token (of the opening brace
\* for a first key), moved past a comma, and end at the end of the value's
\* last token.
C1_SpanStartsAfterPreviousValue ==
    (pc = "loop" /\ idx = 1) =>
        /\ SpanOfKey(manifest_source, AstDict(manifest_source), <<"data">>,
                     _find_data_index_range(manifest_source))
        /\ SpanOfKey(manifest_source, AstDict(manifest_source), <<"qweb">>,
                     _find_qweb_index_range(manifest_source))

KeysOf(items) == [i \in DOMAIN items |-> items[i].key.body]

\* the value of a key that is neither a list nor a mapping
ScalarOf(items, key) ==
    LET i == CHOOSE k \in DOMAIN items : items[k].key.body = key
    IN  <<items[i].value.kind, items[i].value.body>>

KeptAsSpecified(before, after) ==
    /\ after.ok
    /\ KeysOf(after.items)
         = SelectSeq(KeysOf(before.items), LAMBDA k : k # <<"qweb">>) \o << <<"assets">> >>
    /\ \A i \in DOMAIN before.items :
          before.items[i].key.body \notin {<<"data">>, <<"qweb">>}
             => ScalarOf(after.items, before.items[i].key.body)
                  = ScalarOf(before.items, before.items[i].key.body)
    /\ ListOf(after.items, <<"data">>) = data_list

\* C2: a completed run on a manifest with a "data" and a "qweb" list has
\* written a literal mapping without "qweb", with "assets" as its last key,
\* every other key in its place with its value, and "data" the original list
\* without the emptied files.
C2_WrittenManifestKeepsKeys ==
    (pc = "done" /\ HasKey(manifest, <<"data">>) /\ HasKey(manifest, <<"qweb">>))
        => KeptAsSpecified(_get_manifest_dict(manifest0), _get_manifest_dict(manifestDisk))

\* C3: whenever "assets" is injected, a path was collected and no bundle of
\* the injected mapping has an empty list.
C3_NoEmptyBundleInjected ==
    \A k \in DOMAIN injected :
        /\ injected[k].after # <<>>
        /\ \A b \in DOMAIN injected[k].after : injected[k].after[b].paths # <<>>

\* C4: for every .xml entry processed so far: its root was left without
\* element children iff the file is gone from disk iff the path is gone from
\* DataList; entries that are not .xml are still in DataList.
C4_EmptiedIffDeletedIffDelisted ==
    /\ \A k \in DOMAIN processed :
          /\ processed[k].emptied <=> files[processed[k].path].state = "absent"
          /\ processed[k].emptied <=> processed[k].path \notin Range(data_list)
    /\ \A i \in DOMAIN data_list_original :
          ~EndsWith(data_list_original[i], <<".xml">>)
             => data_list_original[i] \in Range(data_list)

Rooted(path) == StartsWith(path, <<"/">> \o module_name \o <<"/">>)

\* C5: every path of an injected mapping is the collected path, which then
\* started with the module name, or the collected path put under
\* /<module_name>/.
C5_PathsRootedAtModule ==
    \A k \in DOMAIN injected : \A b \in DOMAIN injected[k].before :
        \A i \in DOMAIN injected[k].before[b].paths :
            LET original == injected[k].before[b].paths[i]
                stored   == injected[k].after[b].paths[i]
            IN  \/ stored = original /\ (StartsWith(original, module_name) \/ Rooted(original))
                \/ stored = <<"/">> \o module_name \o <<"/">> \o original

\* C6: a run on what a completed run left collects no path, removes no
\* element and no file, and writes the manifest it found.
C6_SecondRunChangesNothing ==
    run > 1 =>
        /\ collected = <<>>
        /\ removed = <<>>
        /\ \A k \in DOMAIN fsLog : fsLog[k].op # "remove"
        /\ pc = "done" => manifestDisk = prevDisk

\* the number of places where pattern occurs in s
Occurrences(s, pattern) == Cardinality({i \in 0..Len(s) : MatchAt(s, pattern, i)})

\* t-raw or t-esc directly followed by -raw or -esc
Stacked(s) ==
    \E token \in {t_raw, t_esc}, tail \in {<<"-", "raw">>, <<"-", "esc">>} :
        Contains(s, token \o tail)

Walked == tpc = "done" /\ file_type_to_match(file_name)

\* C7 as stated: after the walk a view file holds neither t-raw nor t-esc.
C7_NeitherTokenLeft ==
    Walked => ~Contains(xml_text, t_raw) /\ ~Contains(xml_text, t_esc)

\* C7: after the walk every t-raw and every t-esc of the file's text has been
\* replaced, and the file holds neither token unless its text had one of them
\* directly followed by -raw or -esc.
C7_InputTokensReplaced ==
    Walked =>
        /\ Count(xml_text, "raw") + Occurrences(text0, t_raw) = Count(text0, "raw")
        /\ Count(xml_text, "esc") + Occurrences(text0, t_esc) <= Count(text0, "esc")
        /\ Count(xml_text, "ou") >= Occurrences(text0, t_raw) + Occurrences(text0, t_esc)
        /\ ~Stacked(text0) => ~Contains(xml_text, t_raw) /\ ~Contains(xml_text, t_esc)

\* both passes ran on a text with two t-raw and nothing stacked
C7_BothTokensReplaced ==
    /\ Walked
    /\ ~Stacked(text0)
    /\ Occurrences(text0, t_raw) + Occurrences(text0, t_esc) >= 2
    /\ Contains(text0, t_raw)
    /\ Contains(text0, t_esc)
    /\ Contains(xml_text, t_out)

AsStated(kind) == IF kind = "data" THEN 1 ELSE IF kind = "qweb" THEN 2 ELSE 3

AsApplied(kind) == IF kind = "assets" THEN 1 ELSE IF kind = "data" THEN 2 ELSE 3

ElementChildren(kids) == {i \in DOMAIN kids : kids[i].kind = "elem"}

\* C9: no node was removed while it had an element child; in every tree
\* written back, a root child patching an asset view has an element child, and
\* so has each xpath[@expr] child of it.
C9_OnlyChildlessElementsRemoved ==
    /\ \A k \in DOMAIN removed : ElementChildren(removed[k].kids) = {}
    /\ \A f \in DOMAIN survivors : \A i \in DOMAIN survivors[f] :
          survivors[f][i].inherit_id \in ASSET_VIEWS =>
              /\ ElementChildren(survivors[f][i].kids) # {}
              /\ \A x \in DOMAIN survivors[f][i].kids :
                    IsXpathExpr(survivors[f][i].kids[x])
                       => ElementChildren(survivors[f][i].kids[x].kids) # {}

\* a leaf, its xpath and its template were removed one after the other while
\* another patch of an asset view stayed in the tree
C9_CascadeBesideSurvivor ==
    /\ pc = "done"
    /\ Len(removed) >= 3
    /\ \E k \in DOMAIN removed : removed[k].inherit_id \in ASSET_VIEWS
    /\ \E f \in DOMAIN survivors : \E i \in DOMAIN survivors[f] :
          survivors[f][i].inherit_id \in ASSET_VIEWS

ManifestWrites == {k \in DOMAIN fsLog : fsLog[k] = FsWrite(manifest_path)}

\* C10: the manifest file is written at most once in a run, as the run's
\* last file-system effect; until then, and so in every aborted run, the file
\* is what it was when the run started.
C10_ManifestWrittenOnceAtEnd ==
    /\ Cardinality(ManifestWrites) <= 1
    /\ \A k \in ManifestWrites : k = Len(fsLog) /\ pc = "done"
    /\ pc = "done" => ManifestWrites # {}
    /\ pc # "done" => manifestDisk = manifest0

\* a run aborted by a span lookup after a view file was rewritten and deleted
\* and the source was edited
C10_AbortAfterEffects ==
    /\ pc = "error"
    /\ \E k \in DOMAIN fsLog : fsLog[k].op = "remove"
    /\ edits # <<>>
    /\ manifest_source # manifest0

=============================================================================
